---- MODULE Spec2Model ----
(***************************************************************************)
(* GPS tracking hook (useGPSTracking), the run store (useRunStore) and the *)
(* part of the run screen that drives them.                                *)
(*                                                                         *)
(* Units.  Latitudes are integers in thousandths of a degree on one        *)
(* meridian, where the Haversine formula reduces to R * |dLat|; distances  *)
(* are whole metres.  Speeds of a fix are whole metres per second,         *)
(* published speeds are metres per hour (km/h * 1000), paces are seconds   *)
(* per kilometre (min/km * 60), times are whole seconds.                   *)
(***************************************************************************)
EXTENDS Integers, Sequences, FiniteSets, TLC

\* ---------------------------------------------------------------- bounds
MaxPending == 2
MaxSubs == 2
MaxFixes == 3
MaxTime == 1

\* ------------------------------------------------------------- constants
MetersPerMilliDegree == 111
NullSpeed == -9999
NoSub == 0
NoTime == -1
NoStop == -1
\* values of a JavaScript number that are no integer: NaN, Infinity
NaNSpeed == -9998
InfSpeed == 9999
\* a timestamp that new Date() turns into an Invalid Date
NaNStamp == -2
\* the pace published when there is no pace to publish
UndefinedPace == 0

\* a startTracking call that has not returned waits for one of its three
\* awaited platform calls; afterStop: it is the first startTracking call
\* after a completed stopTracking
CallKinds == [pc : {"services", "request", "watch"}, afterStop : BOOLEAN]
SubIds == 1..MaxSubs
\* two positions, 0.001 degree apart
Lats == {0, 1}
Speeds == {2}
Stamps == {0}
Points == [latitude : Lats, speed : Speeds, timestamp : Stamps]

NoPoint == [latitude |-> -1, speed |-> NullSpeed, timestamp |-> -1]

\* the fixes an active session is fed with: every kind of speed a fix can
\* carry, timestamps that do not increase, and a malformed timestamp
FixSpeeds == {NullSpeed, NaNSpeed, InfSpeed, -5, 0, 2, 4}
FixValues ==
  [latitude : Lats, speed : FixSpeeds, timestamp : {0}] \cup
  [latitude : Lats, speed : {2}, timestamp : {1, NaNStamp}]

\* what the platform may throw.  A message is modelled by the keywords it
\* contains; kind says what the thrown value and its message property are
Keywords == {"permission", "provider", "unavailable", "timeout", "services", "disabled"}
ErrorKinds == {"null", "undefined", "noMessage", "emptyMessage", "nonString"}
ErrorValues ==
  [kind : ErrorKinds, words : {{}}] \cup [kind : {"string"}, words : SUBSET Keywords]
NoError == [kind |-> "none", words |-> {}]
Message(words) == [kind |-> "string", words |-> words]
\* the TypeError raised by error.message on null, or by calling toLowerCase
\* of a message that is no string
TypeErrorValue == Message({})
\* the errors the awaited calls of startTracking are made to throw
PlatformErrors ==
  {Message({}), Message({"permission"}), Message({"provider"}),
   Message({"timeout"}), Message({"disabled"}), [kind |-> "null", words |-> {}]}
LocationErrorTypes ==
  {"PERMISSION_DENIED", "SERVICES_DISABLED", "PROVIDER_UNAVAILABLE", "TIMEOUT", "UNKNOWN"}

\* results the platform may give to the three awaited calls of startTracking
ServicesResults == {"enabled", "disabled", "throws"}
RequestResults == {"granted", "denied_ask", "denied_never", "throws"}
WatchResults == {"ok", "throws"}

VARIABLES
  mounted,            \* the RunScreen (and with it the hook) is mounted
  isRunning,          \* store.isRunning
  runStartTime,       \* store.runStartTime (NoTime = null)
  runDistance,        \* store.runDistance
  runDuration,        \* store.runDuration
  gpsMetrics,         \* store.gpsMetrics
  routePoints,        \* store.routePoints
  locationPermission, \* store.locationPermission
  gpsError,           \* store.gpsError ("null" = null)
  subscriptionRef,    \* subscriptionRef.current (NoSub = null)
  isTrackingRef,      \* isTrackingRef.current
  lastPointRef,       \* lastPointRef.current (NoPoint = null)
  calls,              \* number of startTracking calls waiting at each position
  lastStart,          \* the last startTracking call: "skipped" at its guard or "entered"
  subs,               \* subscriptions that are live in the platform
  effectSeen,         \* isRunning as seen by the last run of the effects
  timerStart,         \* runStartTime captured by the live interval (NoTime = no interval)
  sinceStop,          \* fixes handled (0, or 1 for one and more) since stopTracking last
                      \* completed with no startTracking call after it; NoStop otherwise
  now,                \* Date.now() in seconds
  alert,              \* title of the alert shown by the last step of a startTracking
                      \* call ("none": that step showed none)
  canAskAgain,        \* canAskAgain of the last answer of
                      \* requestForegroundPermissionsAsync
  error,              \* the value handed to handleLocationError
  errorType,          \* what handleLocationError made of it ("TypeError": it threw)
  handlerPc           \* the last write to the store of a handleLocationUpdate that is
                      \* running ("idle": none is running)

storeVars == <<isRunning, runStartTime, runDistance, runDuration, gpsMetrics,
               routePoints, locationPermission, gpsError>>
hookVars == <<subscriptionRef, isTrackingRef, lastPointRef, calls,
              lastStart, subs, sinceStop>>
\* what the user is shown and what the OS said about asking again, and the
\* classification of one error
uiVars == <<alert, canAskAgain, error, errorType, handlerPc>>
vars == <<mounted, storeVars, hookVars, effectSeen, timerStart, now, uiVars>>

\* ------------------------------------------------------- pure functions
Abs(x) == IF x < 0 THEN -x ELSE x

\* variant: the second argument is returned unclamped
Max_second(a, b) == b

Max(a, b) == IF a > b THEN a ELSE b

\* variant: the difference of the latitudes taken with its sign
calculateDistance_signed(p1, p2) ==
  MetersPerMilliDegree * (p2.latitude - p1.latitude)

\* Haversine distance of two points of the same meridian, in metres
calculateDistance(p1, p2) == MetersPerMilliDegree * Abs(p2.latitude - p1.latitude)

RECURSIVE SumSegments(_, _)
SumSegments(points, i) ==
  IF i > Len(points) THEN 0
  ELSE calculateDistance(points[i - 1], points[i]) + SumSegments(points, i + 1)

\* variant: the loop starts one segment late
calculateTotalDistance_skipFirst(points) ==
  IF Len(points) < 2 THEN 0 ELSE SumSegments(points, 3)

calculateTotalDistance(points) ==
  IF Len(points) < 2 THEN 0 ELSE SumSegments(points, 2)

\* variant: the speed is taken for km/h
calculatePace_kmh(speedMps) ==
  IF speedMps = NaNSpeed THEN NaNSpeed
  ELSE IF speedMps <= 0 THEN UndefinedPace
  ELSE IF speedMps = InfSpeed THEN 0
  ELSE 3600 \div speedMps

\* seconds per kilometre; NaN <= 0 is false and NaN propagates, 60 / Infinity
\* is 0
calculatePace(speedMps) ==
  IF speedMps = NaNSpeed THEN NaNSpeed
  ELSE IF speedMps <= 0 THEN UndefinedPace
  ELSE IF speedMps = InfSpeed THEN 0
  ELSE 1000 \div speedMps

\* variant: only the distance is tested, a duration of 0 counts as 1 second
calculateAverageMetrics_noDurationTest(points, totalDistance, duration) ==
  IF totalDistance = 0
    THEN [avgSpeed |-> 0, avgPace |-> 0]
    ELSE [avgSpeed |-> (totalDistance * 3600) \div Max(duration, 1),
          avgPace |-> (1000 * Max(duration, 1)) \div totalDistance]

calculateAverageMetrics(points, totalDistance, duration) ==
  IF duration = 0 \/ totalDistance = 0
    THEN [avgSpeed |-> 0, avgPace |-> 0]
    ELSE [avgSpeed |-> (totalDistance * 3600) \div duration,
          avgPace |-> (1000 * duration) \div totalDistance]

\* variant: the test for 'services' and 'disabled' is missing
handleLocationError_noServices(e) ==
  IF e.kind \in {"null", "undefined", "nonString"} THEN "TypeError"
  ELSE IF "permission" \in e.words THEN "PERMISSION_DENIED"
  ELSE IF "provider" \in e.words \/ "unavailable" \in e.words THEN "PROVIDER_UNAVAILABLE"
  ELSE IF "timeout" \in e.words THEN "TIMEOUT"
  ELSE "UNKNOWN"

\* the type handleLocationError gives to the error, "TypeError" when it
\* throws instead
handleLocationError(e) ==
  IF e.kind \in {"null", "undefined", "nonString"} THEN "TypeError"
  ELSE IF "permission" \in e.words THEN "PERMISSION_DENIED"
  ELSE IF "provider" \in e.words \/ "unavailable" \in e.words THEN "PROVIDER_UNAVAILABLE"
  ELSE IF "timeout" \in e.words THEN "TIMEOUT"
  ELSE IF "services" \in e.words \/ "disabled" \in e.words THEN "SERVICES_DISABLED"
  ELSE "UNKNOWN"

\* the title of the alert showErrorAlert shows for the type
showErrorAlert(type) ==
  CASE type = "SERVICES_DISABLED" -> "Location Services Disabled"
    [] type = "PERMISSION_DENIED" -> "Location Permission Required"
    [] type = "PROVIDER_UNAVAILABLE" -> "Location Unavailable"
    [] type = "TIMEOUT" -> "Location Timeout"
    [] OTHER -> "Location Error"

\* ------------------------------------------------------------ the store
ZeroMetrics ==
  [currentSpeed |-> 0, currentPace |-> 0, averageSpeed |-> 0, averagePace |-> 0,
   totalDistance |-> 0, currentLocation |-> NoPoint]

\* variant: only the snapshot is reset
clearRoute_metricsOnly ==
  /\ routePoints' = routePoints
  /\ gpsMetrics' = ZeroMetrics

clearRoute ==
  /\ routePoints' = <<>>
  /\ gpsMetrics' = ZeroMetrics

Init ==
  /\ mounted = TRUE
  /\ isRunning = FALSE
  /\ runStartTime = NoTime
  /\ runDistance = 0
  /\ runDuration = 0
  /\ gpsMetrics = ZeroMetrics
  /\ routePoints = <<>>
  /\ locationPermission = "undetermined"
  /\ gpsError = "null"
  /\ subscriptionRef = NoSub
  /\ isTrackingRef = FALSE
  /\ lastPointRef = NoPoint
  /\ calls = [k \in CallKinds |-> 0]
  /\ lastStart = "none"
  /\ subs = {}
  /\ effectSeen = FALSE
  /\ timerStart = NoTime
  /\ sinceStop = NoStop
  /\ now = 0
  /\ alert = "none"
  /\ canAskAgain = TRUE
  /\ error = NoError
  /\ errorType = "none"
  /\ handlerPc = "idle"

\* variant: the new snapshot is merged into the old one, the pace is kept
setGPSMetrics_keepsPace(metrics) ==
  [metrics EXCEPT !.currentPace = gpsMetrics.currentPace]

\* the snapshot the store holds after setGPSMetrics(metrics)
setGPSMetrics(metrics) == metrics

\* variant: only the distance is written
updateRunStats_distanceOnly(distance, duration) ==
  /\ runDistance' = distance
  /\ runDuration' = runDuration

updateRunStats(distance, duration) ==
  /\ runDistance' = distance
  /\ runDuration' = duration

\* ------------------------------------------------- handleLocationUpdate
LastPoint(points) == points[Len(points)]

\* the list handleLocationUpdate computes the distance of: the route read
\* from the store after addRoutePoint(point), with the point added again
currentPoints(storedPoints, point) == Append(storedPoints, point)

\* the snapshot handleLocationUpdate publishes for the fix `point`, given the
\* route as it is in the store after addRoutePoint(point)
LocationMetrics(storedPoints, point, startTime, clock) ==
  LET totalDistance == calculateTotalDistance(currentPoints(storedPoints, point))
      \* point.speed || 0: null and NaN are falsy
      currentSpeedMps == IF point.speed \in {NullSpeed, NaNSpeed} THEN 0 ELSE point.speed
      currentSpeedKmh == IF currentSpeedMps = InfSpeed THEN InfSpeed
                         ELSE Max(0, currentSpeedMps * 3600)
      currentPace == IF currentSpeedMps > 0 THEN calculatePace(currentSpeedMps) ELSE 0
      duration == IF startTime # NoTime THEN clock - startTime ELSE 0
      avg == calculateAverageMetrics(currentPoints(storedPoints, point),
                                     totalDistance, duration)
  IN [metrics |-> [currentSpeed |-> currentSpeedKmh,
                   currentPace |-> currentPace,
                   averageSpeed |-> avg.avgSpeed,
                   averagePace |-> avg.avgPace,
                   totalDistance |-> totalDistance,
                   currentLocation |-> point],
      duration |-> duration]

\* variant: the point is put in front
addRoutePoint_front(point) == <<point>> \o routePoints

\* the route the store holds after addRoutePoint(point)
addRoutePoint(point) == Append(routePoints, point)

\* a fix delivered to the callback of the live subscription s
handleLocationUpdate(s, point) ==
  /\ s \in subs
  /\ Len(routePoints) < MaxFixes
  /\ LET stored == addRoutePoint(point)
         r == LocationMetrics(stored, point, runStartTime, now)
     IN /\ routePoints' = stored
        /\ gpsMetrics' = setGPSMetrics(r.metrics)
        /\ updateRunStats(r.metrics.totalDistance, r.duration)
  /\ lastPointRef' = point
  /\ sinceStop' = IF sinceStop = NoStop THEN NoStop ELSE 1
  /\ UNCHANGED <<mounted, isRunning, runStartTime, locationPermission, gpsError,
                 subscriptionRef, isTrackingRef, calls, lastStart, subs,
                 effectSeen, timerStart, now, uiVars>>

\* variant: the catch also drops what the session has gathered
locationCallback_clears(s, location) ==
  IF location.timestamp = NaNStamp
    THEN /\ s \in subs
         /\ gpsError' = "Error processing location update"
         /\ clearRoute
         /\ UNCHANGED <<mounted, isRunning, runStartTime, runDistance, runDuration,
                        locationPermission, hookVars, effectSeen,
                        timerStart, now, uiVars>>
    ELSE handleLocationUpdate(s, location)

\* the callback given to watchPositionAsync: handleLocationUpdate throws at
\* new Date(location.timestamp).toISOString(), before it has touched the
\* store, when the timestamp is no valid time; the callback catches it
locationCallback(s, location) ==
  IF location.timestamp = NaNStamp
    THEN /\ s \in subs
         /\ gpsError' = "Error processing location update"
         /\ UNCHANGED <<mounted, isRunning, runStartTime, runDistance, runDuration,
                        gpsMetrics, routePoints, locationPermission, hookVars,
                        effectSeen, timerStart, now, uiVars>>
    ELSE handleLocationUpdate(s, location)

\* --------------------------------------------------------- startTracking
\* number of startTracking calls waiting at the position pc
Waiting(pc) ==
  calls[[pc |-> pc, afterStop |-> FALSE]] + calls[[pc |-> pc, afterStop |-> TRUE]]

\* number of startTracking calls that have not returned
Pending == Waiting("services") + Waiting("request") + Waiting("watch")

FreeSubs == SubIds \ subs

NewSub == CHOOSE s \in FreeSubs : \A t \in FreeSubs : s <= t

\* variant: a call that returns starts over at the permission gate
Returned_retry(c) ==
  calls' = [calls EXCEPT ![c] = @ - 1,
                         ![[pc |-> "services", afterStop |-> c.afterStop]] = @ + 1]

\* the call c returns
Returned(c) == calls' = [calls EXCEPT ![c] = @ - 1]

\* the call c moves on to its next await
Advance(c, pc) ==
  LET d == [c EXCEPT !.pc = pc]
  IN calls' = [calls EXCEPT ![c] = @ - 1, ![d] = @ + 1]

\* variant: no guard on isTrackingRef
startTrackingBody_noGuard ==
  /\ sinceStop' = NoStop
  /\ Pending < MaxPending
  /\ calls' = [calls EXCEPT
                 ![[pc |-> "services", afterStop |-> sinceStop # NoStop]] = @ + 1]
  /\ lastStart' = "entered"
  /\ UNCHANGED <<subscriptionRef, isTrackingRef, lastPointRef, subs>>

\* the synchronous part of a startTracking() call: the guard on isTrackingRef,
\* then requestPermissions up to its first await
startTrackingBody ==
  /\ sinceStop' = NoStop
  /\ IF isTrackingRef
       THEN /\ lastStart' = "skipped"
            /\ calls' = calls
       ELSE /\ Pending < MaxPending
            /\ calls' = [calls EXCEPT
                           ![[pc |-> "services", afterStop |-> sinceStop # NoStop]] = @ + 1]
            /\ lastStart' = "entered"
  /\ UNCHANGED <<subscriptionRef, isTrackingRef, lastPointRef, subs>>

\* the catch of requestPermissions for the thrown value e; when
\* handleLocationError throws on e, the rejection of requestPermissions is
\* caught by the catch of startTracking, which classifies the TypeError
requestPermissionsCatch(e) ==
  IF handleLocationError(e) = "TypeError"
    THEN /\ gpsError' = "Failed to start GPS tracking"
         /\ isTrackingRef' = FALSE
         /\ UNCHANGED locationPermission
    ELSE /\ gpsError' = "Failed to request location permission"
         /\ locationPermission' = "denied"
         /\ UNCHANGED isTrackingRef

\* requestPermissions after Location.hasServicesEnabledAsync() settled
ServicesResolved(c, result, e) ==
  /\ c.pc = "services"
  /\ calls[c] > 0
  /\ CASE result = "enabled" ->
            /\ Advance(c, "request")
            /\ UNCHANGED <<gpsError, locationPermission, isTrackingRef>>
       [] result = "disabled" ->
            /\ Returned(c)
            /\ gpsError' = "Location services are disabled"
            /\ locationPermission' = "denied"
            /\ UNCHANGED isTrackingRef
       [] result = "throws" ->
            /\ Returned(c)
            /\ requestPermissionsCatch(e)
  /\ UNCHANGED <<mounted, isRunning, runStartTime, runDistance, runDuration,
                 gpsMetrics, routePoints, subscriptionRef,
                 lastPointRef, lastStart, subs, sinceStop, effectSeen, timerStart, now>>

\* requestPermissions after Location.requestForegroundPermissionsAsync()
\* settled; on a grant startTracking goes on to clearRoute() and calls
\* Location.watchPositionAsync
RequestResolved(c, result, e) ==
  /\ c.pc = "request"
  /\ calls[c] > 0
  /\ CASE result = "granted" ->
            /\ locationPermission' = "granted"
            /\ gpsError' = "null"
            /\ clearRoute
            /\ Advance(c, "watch")
            /\ UNCHANGED isTrackingRef
       [] result = "denied_ask" ->
            /\ locationPermission' = "denied"
            /\ gpsError' = "Location permission denied"
            /\ Returned(c)
            /\ UNCHANGED <<routePoints, gpsMetrics, isTrackingRef>>
       [] result = "denied_never" ->
            /\ locationPermission' = "denied"
            /\ gpsError' = "Location permission denied"
            /\ Returned(c)
            /\ UNCHANGED <<routePoints, gpsMetrics, isTrackingRef>>
       [] result = "throws" ->
            /\ requestPermissionsCatch(e)
            /\ Returned(c)
            /\ UNCHANGED <<routePoints, gpsMetrics>>
  /\ UNCHANGED <<mounted, isRunning, runStartTime, runDistance, runDuration,
                 subscriptionRef, lastPointRef, lastStart, subs,
                 sinceStop, effectSeen, timerStart, now>>

\* startTracking after Location.watchPositionAsync settled; when
\* handleLocationError throws on the thrown value e the catch of
\* startTracking is left before it has set anything
WatchResolved(c, result, e) ==
  /\ c.pc = "watch"
  /\ calls[c] > 0
  /\ CASE result = "ok" ->
            /\ FreeSubs # {}
            /\ subs' = subs \cup {NewSub}
            /\ subscriptionRef' = NewSub
            /\ isTrackingRef' = TRUE
            /\ gpsError' = "null"
            /\ Returned(c)
       [] result = "throws" ->
            /\ IF handleLocationError(e) = "TypeError"
                 THEN UNCHANGED <<gpsError, isTrackingRef>>
                 ELSE /\ gpsError' = "Failed to start GPS tracking"
                      /\ isTrackingRef' = FALSE
            /\ Returned(c)
            /\ UNCHANGED <<subs, subscriptionRef>>
  /\ UNCHANGED <<mounted, isRunning, runStartTime, runDistance, runDuration,
                 gpsMetrics, routePoints, locationPermission, lastPointRef,
                 lastStart, sinceStop, effectSeen, timerStart, now>>

\* variant: every denial shows the alert, canAskAgain is not looked at
startTrackingAlert_anyDenial(pc, result, e) ==
  CASE result = "disabled" ->
         showErrorAlert(handleLocationError(Message({"services", "disabled"})))
    [] result \in {"denied_never", "denied_ask"} ->
         showErrorAlert(handleLocationError(Message({"permission"})))
    [] result = "throws" /\ pc # "watch" ->
         IF handleLocationError(e) = "TypeError"
           THEN showErrorAlert(handleLocationError(TypeErrorValue))
           ELSE showErrorAlert(handleLocationError(e))
    [] result = "throws" /\ pc = "watch" ->
         IF handleLocationError(e) = "TypeError"
           THEN "none"
           ELSE showErrorAlert(handleLocationError(e))
    [] OTHER -> "none"

\* the title of the alert the step of a startTracking call shows, "none"
\* when it shows none
startTrackingAlert(pc, result, e) ==
  CASE result = "disabled" ->
         showErrorAlert(handleLocationError(Message({"services", "disabled"})))
    [] result = "denied_never" ->
         showErrorAlert(handleLocationError(Message({"permission"})))
    [] result = "throws" /\ pc # "watch" ->
         IF handleLocationError(e) = "TypeError"
           THEN showErrorAlert(handleLocationError(TypeErrorValue))
           ELSE showErrorAlert(handleLocationError(e))
    [] result = "throws" /\ pc = "watch" ->
         IF handleLocationError(e) = "TypeError"
           THEN "none"
           ELSE showErrorAlert(handleLocationError(e))
    [] OTHER -> "none"

\* ---------------------------------------------------------- stopTracking
\* variant: the reference is dropped without remove()
stopTrackingBody_noRemove ==
  IF ~isTrackingRef
    THEN UNCHANGED <<subscriptionRef, isTrackingRef, lastPointRef, subs, sinceStop>>
    ELSE /\ subs' = subs
         /\ subscriptionRef' = NoSub
         /\ isTrackingRef' = FALSE
         /\ lastPointRef' = NoPoint
         /\ sinceStop' = 0

stopTrackingBody ==
  IF ~isTrackingRef
    THEN UNCHANGED <<subscriptionRef, isTrackingRef, lastPointRef, subs, sinceStop>>
    ELSE /\ subs' = subs \ {subscriptionRef}
         /\ subscriptionRef' = NoSub
         /\ isTrackingRef' = FALSE
         /\ lastPointRef' = NoPoint
         /\ sinceStop' = 0

\* ------------------------------------------------------- the run screen
\* handleStartStop while no run is on: startRun()
StartRun ==
  /\ mounted
  /\ ~isRunning
  /\ isRunning' = TRUE
  /\ runStartTime' = now
  /\ runDistance' = 0
  /\ runDuration' = 0
  /\ UNCHANGED <<mounted, gpsMetrics, routePoints, locationPermission, gpsError,
                 hookVars, effectSeen, timerStart, now, uiVars>>

\* variant: endRun() also empties the route
EndRun_clearsRoute ==
  /\ mounted
  /\ isRunning
  /\ isRunning' = FALSE
  /\ runStartTime' = NoTime
  /\ routePoints' = <<>>
  /\ UNCHANGED <<mounted, runDistance, runDuration, gpsMetrics,
                 locationPermission, gpsError, hookVars, effectSeen, timerStart, now,
                 uiVars>>

\* handleStartStop while a run is on: endRun()
EndRun ==
  /\ mounted
  /\ isRunning
  /\ isRunning' = FALSE
  /\ runStartTime' = NoTime
  /\ UNCHANGED <<mounted, runDistance, runDuration, gpsMetrics, routePoints,
                 locationPermission, gpsError, hookVars, effectSeen, timerStart, now,
                 uiVars>>

\* the effects of the run screen that depend on isRunning, run after the
\* render that follows a change of the flag: the auto-start/stop effect of
\* useGPSTracking and the timer effect of RunScreen
RunEffects ==
  /\ mounted
  /\ effectSeen # isRunning
  /\ effectSeen' = isRunning
  /\ IF isRunning /\ ~isTrackingRef THEN startTrackingBody
     ELSE IF ~isRunning /\ isTrackingRef
       THEN stopTrackingBody /\ UNCHANGED <<calls, lastStart>>
       ELSE UNCHANGED hookVars
  /\ timerStart' = IF isRunning /\ runStartTime # NoTime THEN runStartTime ELSE NoTime
  /\ UNCHANGED <<mounted, storeVars, now, uiVars>>

\* the callback of the timer effect's setInterval
TimerTick ==
  /\ mounted
  /\ timerStart # NoTime
  /\ updateRunStats(0, now - timerStart)
  /\ UNCHANGED <<mounted, isRunning, runStartTime, gpsMetrics, routePoints,
                 locationPermission, gpsError, hookVars, effectSeen, timerStart, now,
                 uiVars>>

\* wall-clock time passes
Tick ==
  /\ now < MaxTime
  /\ now' = now + 1
  /\ UNCHANGED <<mounted, storeVars, hookVars, effectSeen, timerStart, uiVars>>

\* the run screen is unmounted: cleanup of the hook's effect and of the timer
Unmount ==
  /\ mounted
  /\ mounted' = FALSE
  /\ subs' = subs \ {subscriptionRef}
  /\ subscriptionRef' = NoSub
  /\ isTrackingRef' = FALSE
  /\ timerStart' = NoTime
  /\ UNCHANGED <<storeVars, lastPointRef, calls, lastStart, sinceStop,
                 effectSeen, now, uiVars>>

\* sign-out: the auth listener calls reset() of the store
SignOut ==
  /\ isRunning' = FALSE
  /\ runStartTime' = NoTime
  /\ runDistance' = 0
  /\ runDuration' = 0
  /\ gpsMetrics' = ZeroMetrics
  /\ routePoints' = <<>>
  /\ locationPermission' = "undetermined"
  /\ gpsError' = "null"
  /\ UNCHANGED <<mounted, hookVars, effectSeen, timerStart, now, uiVars>>

\* startTracking() called by a consumer of the hook's return value
startTracking ==
  /\ mounted
  /\ startTrackingBody
  /\ UNCHANGED <<mounted, storeVars, effectSeen, timerStart, now, uiVars>>

\* stopTracking() called by a consumer of the hook's return value
stopTracking ==
  /\ mounted
  /\ stopTrackingBody
  /\ UNCHANGED <<mounted, storeVars, calls, lastStart, effectSeen,
                 timerStart, now, uiVars>>

\* ------------------------------------------------------- specifications
\* the value a platform call with the result r has thrown: an Error with a
\* message (the values handleLocationError throws on are among ThrownAny)
Thrown(r) == IF r = "throws" THEN {Message({})} ELSE {NoError}

\* the steps of the startTracking calls, the alerts left out
Services ==
  \E c \in CallKinds, r \in ServicesResults : \E e \in Thrown(r) :
    ServicesResolved(c, r, e) /\ UNCHANGED uiVars

Request ==
  \E c \in CallKinds, r \in RequestResults : \E e \in Thrown(r) :
    RequestResolved(c, r, e) /\ UNCHANGED uiVars

Watch ==
  \E c \in CallKinds, r \in WatchResults : \E e \in Thrown(r) :
    WatchResolved(c, r, e) /\ UNCHANGED uiVars

Fix == \E s \in SubIds, p \in Points : handleLocationUpdate(s, p)

\* the app as the run screen drives it: everything follows the run flag;
\* the clock stays within one second, so every duration is 0
Next ==
  \/ StartRun
  \/ EndRun
  \/ RunEffects
  \/ Services
  \/ Request
  \/ Watch
  \/ Fix
  \/ TimerTick

Spec == Init /\ [][Next]_vars

\* the same with direct calls of the functions the hook returns
NextApi ==
  \/ Next
  \/ startTracking
  \/ stopTracking

SpecApi == Init /\ [][NextApi]_vars

\* the same with the passing of time, the unmount of the run screen and
\* the sign-out
NextApp ==
  \/ NextApi
  \/ Tick
  \/ Unmount
  \/ SignOut

SpecApp == Init /\ [][NextApp]_vars

\* the steps of the startTracking calls with the alerts they show
ThrownAny(r) == IF r = "throws" THEN PlatformErrors ELSE {NoError}

ServicesStep ==
  \E c \in CallKinds, r \in ServicesResults : \E e \in ThrownAny(r) :
    /\ ServicesResolved(c, r, e)
    /\ alert' = startTrackingAlert("services", r, e)
    /\ UNCHANGED <<canAskAgain, error, errorType, handlerPc>>

RequestStep ==
  \E c \in CallKinds, r \in RequestResults : \E e \in ThrownAny(r) :
    /\ RequestResolved(c, r, e)
    /\ alert' = startTrackingAlert("request", r, e)
    /\ canAskAgain' = IF r = "throws" THEN canAskAgain ELSE r # "denied_never"
    /\ UNCHANGED <<error, errorType, handlerPc>>

WatchStep ==
  \E c \in CallKinds, r \in WatchResults : \E e \in ThrownAny(r) :
    /\ WatchResolved(c, r, e)
    /\ alert' = startTrackingAlert("watch", r, e)
    /\ UNCHANGED <<canAskAgain, error, errorType, handlerPc>>

\* the starts and stops the run flag causes, what the user is shown
\* included, with no fix delivered
NextGate ==
  \/ StartRun
  \/ EndRun
  \/ RunEffects
  \/ ServicesStep
  \/ RequestStep
  \/ WatchStep

SpecGate == Init /\ [][NextGate]_vars

\* the app driven by the run flag, with the sign-out
NextReset ==
  \/ Next
  \/ SignOut

SpecReset == Init /\ [][NextReset]_vars

\* the app driven by the run flag, with the unmount of the run screen
NextUnmount ==
  \/ Next
  \/ Unmount

SpecUnmount == Init /\ [][NextUnmount]_vars

\* a session that has been started by the run flag and is active: the state
\* after startRun, the effects, services enabled, permission granted and
\* watchPositionAsync resolved
InitActive ==
  /\ mounted = TRUE
  /\ isRunning = TRUE
  /\ runStartTime = 0
  /\ runDistance = 0
  /\ runDuration = 0
  /\ gpsMetrics = ZeroMetrics
  /\ routePoints = <<>>
  /\ locationPermission = "granted"
  /\ gpsError = "null"
  /\ subscriptionRef = 1
  /\ isTrackingRef = TRUE
  /\ lastPointRef = NoPoint
  /\ calls = [k \in CallKinds |-> 0]
  /\ lastStart = "entered"
  /\ subs = {1}
  /\ effectSeen = TRUE
  /\ timerStart = 0
  /\ sinceStop = NoStop
  /\ now = 0
  /\ alert = "none"
  /\ canAskAgain = TRUE
  /\ error = NoError
  /\ errorType = "none"
  /\ handlerPc = "idle"

\* the platform delivers a location object, well-formed or not
Location == \E s \in SubIds, p \in FixValues : locationCallback(s, p)

\* one active session and the fixes it is given
NextActive ==
  \/ Location
  \/ TimerTick

SpecActive == InitActive /\ [][NextActive]_vars

\* the fixes of an active session whose clock runs
ClockFixes == [latitude : Lats, speed : {0, 2}, timestamp : {0}]

ClockFix == \E s \in SubIds, p \in ClockFixes : locationCallback(s, p)

\* one active session while time passes, and its end: endRun(), after which
\* the effects stop the tracking
NextClock ==
  \/ ClockFix
  \/ Tick
  \/ TimerTick
  \/ EndRun
  \/ RunEffects

SpecClock == InitActive /\ [][NextClock]_vars

\* handleLocationUpdate write by write: each set() of the store notifies the
\* listeners of the store before the handler goes on. addRoutePoint(point)
PublishRoute(s, point) ==
  /\ handlerPc = "idle"
  /\ s \in subs
  /\ Len(routePoints) < MaxFixes
  /\ routePoints' = addRoutePoint(point)
  /\ handlerPc' = "addRoutePoint"
  /\ UNCHANGED <<mounted, isRunning, runStartTime, runDistance, runDuration,
                 gpsMetrics, locationPermission, gpsError, hookVars, effectSeen,
                 timerStart, now, alert, canAskAgain, error, errorType>>

\* setGPSMetrics(metrics), with the metrics of the point just added
PublishMetrics ==
  /\ handlerPc = "addRoutePoint"
  /\ gpsMetrics' = setGPSMetrics(LocationMetrics(routePoints, LastPoint(routePoints),
                                                 runStartTime, now).metrics)
  /\ handlerPc' = "setGPSMetrics"
  /\ UNCHANGED <<mounted, isRunning, runStartTime, runDistance, runDuration,
                 routePoints, locationPermission, gpsError, hookVars, effectSeen,
                 timerStart, now, alert, canAskAgain, error, errorType>>

\* updateRunStats(totalDistance, duration) and the end of the handler
PublishRunStats ==
  /\ handlerPc = "setGPSMetrics"
  /\ LET r == LocationMetrics(routePoints, LastPoint(routePoints), runStartTime, now)
     IN updateRunStats(r.metrics.totalDistance, r.duration)
  /\ lastPointRef' = LastPoint(routePoints)
  /\ sinceStop' = IF sinceStop = NoStop THEN NoStop ELSE 1
  /\ handlerPc' = "idle"
  /\ UNCHANGED <<mounted, isRunning, runStartTime, gpsMetrics, routePoints,
                 locationPermission, gpsError, subscriptionRef, isTrackingRef,
                 calls, lastStart, subs, effectSeen, timerStart, now,
                 alert, canAskAgain, error, errorType>>

StoreFix == \E s \in SubIds, p \in ClockFixes : PublishRoute(s, p)

\* the interval and the clock: no other callback runs inside a handler
StoreTimerTick == handlerPc = "idle" /\ TimerTick

StoreTick == handlerPc = "idle" /\ Tick

\* one active session as the listeners of the store see it
NextStore ==
  \/ StoreFix
  \/ PublishMetrics
  \/ PublishRunStats
  \/ StoreTimerTick
  \/ StoreTick

SpecStore == InitActive /\ [][NextStore]_vars

\* handleLocationError alone: any value the platform can throw is handed
\* to it once
InitClassify ==
  /\ mounted = TRUE
  /\ isRunning = FALSE
  /\ runStartTime = NoTime
  /\ runDistance = 0
  /\ runDuration = 0
  /\ gpsMetrics = ZeroMetrics
  /\ routePoints = <<>>
  /\ locationPermission = "undetermined"
  /\ gpsError = "null"
  /\ subscriptionRef = NoSub
  /\ isTrackingRef = FALSE
  /\ lastPointRef = NoPoint
  /\ calls = [k \in CallKinds |-> 0]
  /\ lastStart = "none"
  /\ subs = {}
  /\ effectSeen = FALSE
  /\ timerStart = NoTime
  /\ sinceStop = NoStop
  /\ now = 0
  /\ alert = "none"
  /\ canAskAgain = TRUE
  /\ error \in ErrorValues
  /\ errorType = "none"
  /\ handlerPc = "idle"

\* variant: the test for 'services' and 'disabled' is made first
Classify_servicesFirst ==
  /\ errorType = "none"
  /\ errorType' = IF error.kind = "string"
                     /\ (error.words \cap {"services", "disabled"}) # {}
                   THEN "SERVICES_DISABLED"
                   ELSE handleLocationError(error)
  /\ UNCHANGED <<mounted, storeVars, hookVars, effectSeen, timerStart, now,
                 alert, canAskAgain, error, handlerPc>>

Classify ==
  /\ errorType = "none"
  /\ errorType' = handleLocationError(error)
  /\ UNCHANGED <<mounted, storeVars, hookVars, effectSeen, timerStart, now,
                 alert, canAskAgain, error, handlerPc>>

NextClassify == Classify

SpecClassify == InitClassify /\ [][NextClassify]_vars

\* ------------------------------------------------------------ properties
\* a step in which handleLocationUpdate has added a fix to the route
FixLands == Len(routePoints') = Len(routePoints) + 1

WaitingGate == Waiting("services") + Waiting("request")

WaitingWatch == Waiting("watch")

\* nothing is in progress: no startTracking call is waiting and the effects
\* have run for the current value of the run flag
Quiescent == mounted /\ Pending = 0 /\ effectSeen = isRunning

\* C1: at every moment at most one platform location subscription is live
C1_OneSubscription == Cardinality(subs) <= 1

\* C2: once stopTracking has completed, at most one more fix lands: after
\* that one no fix changes routePoints or gpsMetrics until startTracking
\* is called again
C2_NoFixAfterStop == [][sinceStop = 1 => ~FixLands]_vars

\* C3: in every quiescent state in which the run flag is false no location
\* subscription is live
C3_TrackingFollowsRunFlag == (Quiescent /\ ~isRunning) => subs = {}

\* C4: every fix handled by handleLocationUpdate publishes a totalDistance
\* that is at least the totalDistance published before it
C4_DistanceMonotone ==
  [][FixLands => gpsMetrics'.totalDistance >= gpsMetrics.totalDistance]_vars

C4_Witness ==
  /\ Len(routePoints) = 3
  /\ calculateDistance(routePoints[1], routePoints[2]) > 0
  /\ gpsMetrics.totalDistance > calculateDistance(routePoints[1], routePoints[2])

\* C5: the totalDistance published for a fix is the totalDistance published
\* before it plus the distance from the previous fix of the route to this
\* fix (plus 0 when the route was empty)
C5_IncrementalSum ==
  [][FixLands =>
       gpsMetrics'.totalDistance =
         gpsMetrics.totalDistance +
           (IF routePoints = <<>> THEN 0
            ELSE calculateDistance(LastPoint(routePoints), LastPoint(routePoints')))]_vars

C5_Witness ==
  /\ Len(routePoints) = 2
  /\ routePoints[1] # routePoints[2]
  /\ gpsMetrics.totalDistance = calculateDistance(routePoints[1], routePoints[2])
  /\ gpsMetrics.totalDistance > 0

\* C6: a start whose permission is granted empties the route whatever it
\* held, and the first fix handled on the empty route publishes
\* totalDistance 0
C6_FirstFixZero ==
  [][/\ (WaitingWatch' = WaitingWatch + 1) => routePoints' = <<>>
     /\ (FixLands /\ routePoints = <<>>) => gpsMetrics'.totalDistance = 0]_vars

C6_Witness ==
  /\ Len(routePoints) = 1
  /\ gpsMetrics.totalDistance = 0
  /\ gpsMetrics.currentLocation = routePoints[1]
  /\ routePoints[1].latitude = 1

\* C7: startTracking called while isTrackingRef is set changes nothing: no
\* subscription is created, no call to the permission gate is started, and
\* routePoints, gpsMetrics, locationPermission and gpsError stay as they were
C7_StartWhileActiveNoOp ==
  [][(isTrackingRef /\ startTracking) =>
       UNCHANGED <<subs, subscriptionRef, isTrackingRef, calls, routePoints,
                   gpsMetrics, locationPermission, gpsError>>]_vars

C7_Witness ==
  /\ lastStart = "skipped"
  /\ isTrackingRef
  /\ subscriptionRef \in subs
  /\ Len(routePoints) > 0

\* C8: while the first startTracking call after a completed stopTracking
\* waits for watchPositionAsync, with permission granted and the route
\* cleared, routePoints is empty and gpsMetrics is the all-zero snapshot
C8_CleanRestart ==
  \A k \in CallKinds :
    (k.pc = "watch" /\ k.afterStop /\ calls[k] > 0) =>
      (routePoints = <<>> /\ gpsMetrics = ZeroMetrics)

\* C9: when a startTracking call returns because the permission gate denied,
\* no subscription exists, isTrackingRef is false, locationPermission is
\* 'denied' and gpsError is not null
C9_DeniedNoSubscription ==
  [][(WaitingGate' = WaitingGate - 1 /\ WaitingWatch' = WaitingWatch) =>
       /\ subs' = {}
       /\ subscriptionRef' = NoSub
       /\ ~isTrackingRef'
       /\ locationPermission' = "denied"
       /\ gpsError' # "null"]_vars

\* C10: a stopTracking that finds the tracking flag set removes the
\* subscription held in subscriptionRef, clears the flag and leaves
\* routePoints and gpsMetrics as they were
C10_StopKeepsRoute ==
  [][(isTrackingRef /\ subscriptionRef # NoSub /\ subscriptionRef' = NoSub) =>
       /\ subscriptionRef \notin subs'
       /\ ~isTrackingRef'
       /\ routePoints' = routePoints
       /\ gpsMetrics' = gpsMetrics]_vars

C10_Witness ==
  /\ sinceStop = 0
  /\ subs = {}
  /\ ~isTrackingRef
  /\ Len(routePoints) > 0
  /\ gpsMetrics.currentLocation = LastPoint(routePoints)

\* the message the callback of the subscription stores when
\* handleLocationUpdate has thrown
ProcessingError == "Error processing location update"

\* C11: when the processing of a delivered fix fails, the session stops
\* tracking (no subscription stays live, the tracking flag is cleared), and
\* from then on no fix is added to the route
C11_ErrorEndsSession ==
  [][/\ (gpsError # ProcessingError /\ gpsError' = ProcessingError) =>
          (~isTrackingRef' /\ subs' = {})
     /\ (gpsError = ProcessingError) => ~FixLands]_vars

\* C12: the step in which the processing of a fix fails leaves routePoints
\* and gpsMetrics as they were
C12_ErrorKeepsData ==
  [][(gpsError # ProcessingError /\ gpsError' = ProcessingError) =>
       (routePoints' = routePoints /\ gpsMetrics' = gpsMetrics)]_vars

C12_Witness ==
  /\ gpsError = ProcessingError
  /\ Len(routePoints) = 2
  /\ gpsMetrics.totalDistance > 0
  /\ gpsMetrics.currentLocation = LastPoint(routePoints)

\* C13: a pass through the permission gate begins only when the effects
\* answer a change of the run flag to true: no step of a startTracking call
\* (denial, failure or success) and no other step starts one
C13_NoAutoRetry ==
  [][Waiting("services")' > Waiting("services") =>
       (isRunning /\ effectSeen # isRunning /\ effectSeen' = isRunning)]_vars

\* a start has ended in denial, the run flag is still set and nothing is
\* in progress
C13_Witness ==
  /\ isRunning
  /\ Quiescent
  /\ lastStart = "entered"
  /\ ~isTrackingRef
  /\ subs = {}
  /\ locationPermission = "denied"
  /\ gpsError # "null"

\* C14: while a session is active every change of routePoints is one point
\* put at the end, the fix just processed, with all earlier points left in
\* place; a snapshot is published only together with such a step; and a fix
\* whose timestamp is not greater than the last one is appended like any
\* other (the witness)
C14_RouteAppendOnly ==
  [][/\ (routePoints' # routePoints) =>
          /\ FixLands
          /\ SubSeq(routePoints', 1, Len(routePoints)) = routePoints
          /\ LastPoint(routePoints') = gpsMetrics'.currentLocation
     /\ (gpsMetrics' # gpsMetrics) => FixLands]_vars

C14_Witness ==
  /\ Len(routePoints) = 3
  /\ routePoints[1].timestamp = 1
  /\ routePoints[2].timestamp = 0
  /\ routePoints[3].timestamp = 0
  /\ routePoints[1].latitude # routePoints[2].latitude
  /\ gpsMetrics.currentLocation = routePoints[3]
  /\ gpsMetrics.totalDistance > 0

\* a step in which the route loses points
RouteShortened == Len(routePoints') < Len(routePoints)

\* the step of a startTracking call in which permission is granted and
\* clearRoute() is called
GrantStep == WaitingWatch' = WaitingWatch + 1 /\ locationPermission' = "granted"

\* the step leaves the store as reset() leaves it
ResetStep ==
  /\ isRunning' = FALSE
  /\ runStartTime' = NoTime
  /\ runDistance' = 0
  /\ runDuration' = 0
  /\ gpsMetrics' = ZeroMetrics
  /\ routePoints' = <<>>
  /\ locationPermission' = "undetermined"
  /\ gpsError' = "null"

\* C15: the only step in which routePoints loses points is the clear of a
\* startTracking call whose permission was granted
C15_ClearedOnlyAtStart ==
  [][RouteShortened => (GrantStep /\ routePoints' = <<>>)]_vars

\* C15, amended: routePoints loses points only in the clear of a granted
\* startTracking call and in the reset() of the store at sign-out, and both
\* empty it
C15_ClearedAtStartOrReset ==
  [][RouteShortened => (routePoints' = <<>> /\ (GrantStep \/ ResetStep))]_vars

\* the store has been reset while a session that had received fixes was
\* active
C15_Witness ==
  /\ routePoints = <<>>
  /\ locationPermission = "undetermined"
  /\ lastPointRef # NoPoint
  /\ isTrackingRef
  /\ subs = {subscriptionRef}
  /\ Pending = 0

\* the step is the return of a startTracking call that was denied and has
\* opened no subscription
DeniedReturn ==
  /\ Pending' = Pending - 1
  /\ WaitingWatch' = WaitingWatch
  /\ subs' = subs
  /\ subscriptionRef' = subscriptionRef
  /\ locationPermission' = "denied"
  /\ gpsError' # "null"

\* C16: when hasServicesEnabledAsync reports the location service disabled,
\* the call returns denied, the alert of SERVICES_DISABLED is shown,
\* locationPermission becomes 'denied', gpsError is set, and no
\* requestForegroundPermissionsAsync is started
C16_ServicesDisabled ==
  [][\A c \in CallKinds :
       ServicesResolved(c, "disabled", NoError) =>
         /\ DeniedReturn
         /\ alert' = "Location Services Disabled"
         /\ Waiting("request")' = Waiting("request")]_vars

C16_Witness ==
  /\ alert = "Location Services Disabled"
  /\ gpsError = "Location services are disabled"
  /\ locationPermission = "denied"
  /\ isRunning
  /\ Quiescent
  /\ subs = {}

\* C17: a denial with canAskAgain = false shows the settings alert of
\* PERMISSION_DENIED, a denial with canAskAgain = true shows no alert, and
\* both return denied without opening a subscription
C17_DenialGuidance ==
  [][\A c \in CallKinds :
       RequestResolved(c, "denied_never", NoError) =>
         /\ DeniedReturn
         /\ ~canAskAgain' => alert' = "Location Permission Required"
         /\ canAskAgain' => alert' = "none"]_vars

C17_Witness ==
  /\ alert = "Location Permission Required"
  /\ ~canAskAgain
  /\ gpsError = "Location permission denied"
  /\ locationPermission = "denied"
  /\ isRunning
  /\ Quiescent
  /\ subs = {}

\* C18: whatever value handleLocationError is given, it returns one of the
\* five types and does not throw
C18_ClassificationTotal == errorType \in LocationErrorTypes \cup {"none"}

\* C19: once the hook is unmounted no location subscription is live (and
\* so no fix can reach the store)
C19_UnmountCleansUp == ~mounted => subs = {}

\* the speed is a finite number greater than 0
FinitePositive(v) == v \notin {NullSpeed, NaNSpeed, InfSpeed} /\ v > 0

\* C20: the currentPace published for a fix is 60 / (speed * 3.6) min/km
\* (here times 60, in seconds per kilometre) and not the undefined value
\* when the speed of the fix is finite and positive, and the undefined
\* value when the speed is absent, NaN, infinite, zero or negative
C20_CurrentPace ==
  gpsMetrics.currentLocation # NoPoint =>
    LET v == gpsMetrics.currentLocation.speed
    IN IF FinitePositive(v)
         THEN /\ gpsMetrics.currentPace = (60 * 60 * 10) \div (v * 36)
              /\ gpsMetrics.currentPace # UndefinedPace
         ELSE gpsMetrics.currentPace = UndefinedPace

C20_Witness ==
  /\ Len(routePoints) = 3
  /\ routePoints[1].speed = NullSpeed
  /\ routePoints[2].speed = InfSpeed
  /\ routePoints[3].speed = 4
  /\ gpsMetrics.currentLocation = routePoints[3]
  /\ gpsMetrics.currentPace = 250

\* C21: the currentSpeed of the published snapshot is never negative: it
\* is 0 when the speed of the fix is absent, NaN, zero or negative, and the
\* speed of the fix in km/h (here times 1000) otherwise
C21_SpeedNotNegative ==
  /\ gpsMetrics.currentSpeed >= 0
  /\ gpsMetrics.currentLocation # NoPoint =>
       LET v == gpsMetrics.currentLocation.speed
       IN /\ (v \in {NullSpeed, NaNSpeed} \/ v <= 0) => gpsMetrics.currentSpeed = 0
          /\ FinitePositive(v) => gpsMetrics.currentSpeed = v * 3600

C21_Witness ==
  /\ Len(routePoints) = 2
  /\ routePoints[1].speed = 4
  /\ routePoints[2].speed = -5
  /\ gpsMetrics.currentLocation = routePoints[2]
  /\ gpsMetrics.currentSpeed = 0

\* the whole seconds since the start of the run, 0 without a start time
ElapsedSeconds == IF runStartTime # NoTime THEN now - runStartTime ELSE 0

\* C22: a fix processed when the elapsed seconds are 0, without a run start
\* time included, publishes averageSpeed 0 and averagePace 0; an average
\* other than 0 is published only when both divisors, the elapsed seconds
\* and the total distance, are not 0
C22_AveragesAtZeroElapsed ==
  [][FixLands =>
       /\ ElapsedSeconds = 0 =>
            gpsMetrics'.averageSpeed = 0 /\ gpsMetrics'.averagePace = 0
       /\ (gpsMetrics'.averageSpeed # 0 \/ gpsMetrics'.averagePace # 0) =>
            ElapsedSeconds # 0 /\ gpsMetrics'.totalDistance # 0]_vars

C22_Witness ==
  /\ runStartTime # NoTime
  /\ ElapsedSeconds = 0
  /\ Len(routePoints) = 2
  /\ gpsMetrics.totalDistance > 0
  /\ gpsMetrics.averageSpeed = 0
  /\ gpsMetrics.averagePace = 0

\* C23: a processed fix replaces the whole snapshot: each of the six fields
\* is the value computed for that fix (the speed and the pace from the speed
\* of the fix, the distance from the route that ends with it, the averages
\* from that distance and the elapsed seconds), and currentLocation is the
\* fix, the last element of routePoints
C23_WholeSnapshot ==
  [][FixLands =>
       LET p == LastPoint(routePoints')
           d == calculateTotalDistance(routePoints')
           t == ElapsedSeconds
       IN /\ lastPointRef' = p
          /\ gpsMetrics'.currentLocation = p
          /\ gpsMetrics'.currentSpeed =
               IF FinitePositive(p.speed) THEN p.speed * 3600
               ELSE IF p.speed = InfSpeed THEN InfSpeed ELSE 0
          /\ gpsMetrics'.currentPace =
               IF FinitePositive(p.speed) THEN 1000 \div p.speed ELSE 0
          /\ gpsMetrics'.totalDistance = d
          /\ gpsMetrics'.averageSpeed =
               IF t = 0 \/ d = 0 THEN 0 ELSE (d * 3600) \div t
          /\ gpsMetrics'.averagePace =
               IF t = 0 \/ d = 0 THEN 0 ELSE (1000 * t) \div d]_vars

\* a moving fix at second 0, then a standing one 111 m away at second 1
C23_Witness ==
  /\ Len(routePoints) = 2
  /\ routePoints[1].speed = 2
  /\ routePoints[2].speed = 0
  /\ routePoints[1].latitude # routePoints[2].latitude
  /\ gpsMetrics.currentLocation = routePoints[2]
  /\ gpsMetrics.currentSpeed = 0
  /\ gpsMetrics.currentPace = 0
  /\ gpsMetrics.totalDistance = MetersPerMilliDegree
  /\ gpsMetrics.averageSpeed = MetersPerMilliDegree * 3600
  /\ gpsMetrics.averagePace = 1000 \div MetersPerMilliDegree

\* C24: on the n-th location update of a session the list currentPoints,
\* whose length is logged and whose distance is published, has exactly n
\* points, the same as the stored routePoints
C24_CurrentPointsCount ==
  [][FixLands =>
       /\ currentPoints(routePoints', lastPointRef') = routePoints'
       /\ Len(currentPoints(routePoints', lastPointRef')) = Len(routePoints')]_vars

\* C25: after a processed fix runDistance is the totalDistance of the
\* snapshot published for it and runDuration is the elapsed seconds its
\* averages were computed from
C25_RunStatsFollowFix ==
  [][FixLands =>
       /\ runDistance' = gpsMetrics'.totalDistance
       /\ runDuration' = ElapsedSeconds]_vars

C25_Witness ==
  /\ Len(routePoints) = 2
  /\ runStartTime # NoTime
  /\ ElapsedSeconds = 1
  /\ gpsMetrics.totalDistance = MetersPerMilliDegree
  /\ runDistance = MetersPerMilliDegree
  /\ runDuration = 1

\* the classes in the order of their precedence, and the keywords of each
ClassOrder ==
  <<"PERMISSION_DENIED", "PROVIDER_UNAVAILABLE", "TIMEOUT", "SERVICES_DISABLED">>

ClassWords(class) ==
  CASE class = "PERMISSION_DENIED" -> {"permission"}
    [] class = "PROVIDER_UNAVAILABLE" -> {"provider", "unavailable"}
    [] class = "TIMEOUT" -> {"timeout"}
    [] class = "SERVICES_DISABLED" -> {"services", "disabled"}

\* the positions in ClassOrder of the classes the message has a keyword of
MatchingClasses(words) ==
  {i \in 1..Len(ClassOrder) : (ClassWords(ClassOrder[i]) \cap words) # {}}

FirstClass(words) ==
  IF MatchingClasses(words) = {} THEN "UNKNOWN"
  ELSE ClassOrder[CHOOSE i \in MatchingClasses(words) :
                    \A j \in MatchingClasses(words) : i <= j]

\* C26: an error with a message (a missing or empty one counts as '') is
\* given the first class, in the order permission, provider/unavailable,
\* timeout, services/disabled, that its lower-cased message has a keyword of,
\* and UNKNOWN when it has none; the message of the gate for disabled
\* services is SERVICES_DISABLED and its message for a denial is
\* PERMISSION_DENIED
C26_ClassPrecedence ==
  (errorType # "none" /\ error.kind \in {"string", "noMessage", "emptyMessage"}) =>
    /\ errorType = FirstClass(error.words)
    /\ error = Message({"services", "disabled"}) => errorType = "SERVICES_DISABLED"
    /\ error = Message({"permission"}) => errorType = "PERMISSION_DENIED"

C26_Witness ==
  /\ error = Message({"permission", "unavailable", "timeout", "disabled"})
  /\ errorType = "PERMISSION_DENIED"

\* C27: while a run goes on runDistance never decreases, and a step that
\* processes no fix (the 1-second tick of the run screen among them) leaves
\* it as the last fix wrote it
C27_DistanceMonotonic ==
  [][(isRunning /\ isRunning' /\ runStartTime' = runStartTime) =>
       /\ runDistance' >= runDistance
       /\ ~FixLands => runDistance' = runDistance]_vars

\* C29: a processed fix, one processed after endRun() cleared the start time
\* included, never lowers runDuration and never puts a runDuration, an
\* averageSpeed or an averagePace that was above 0 back to 0
C29_SummaryStable ==
  [][FixLands =>
       /\ runDuration' >= runDuration
       /\ gpsMetrics.averageSpeed > 0 => gpsMetrics'.averageSpeed > 0
       /\ gpsMetrics.averagePace > 0 => gpsMetrics'.averagePace > 0]_vars

\* C30: in every state between the steps of the hook (each await boundary
\* and each quiescent state) isTrackingRef is true exactly when
\* subscriptionRef holds a live subscription
C30_FlagMatchesSubscription ==
  isTrackingRef <=> (subscriptionRef # NoSub /\ subscriptionRef \in subs)

\* C28: in every state an observer of the store can see, a route that is
\* not empty ends with the currentLocation of the snapshot and has the
\* totalDistance of the snapshot as its path length
C28_RouteMatchesSnapshot ==
  routePoints # <<>> =>
    /\ gpsMetrics.currentLocation = LastPoint(routePoints)
    /\ gpsMetrics.totalDistance = calculateTotalDistance(routePoints)

====
